---- MODULE Spec2Model ----
(***************************************************************************)
(* Snake4D: the discrete 4D grid camera (GridCamera4D), the heading-aware  *)
(* A* path finder (GridPathFinder4D) and the game simulation               *)
(* (GameSimulation), modelled as state machines.                           *)
(*                                                                         *)
(* Cells and directions are 4-tuples <<x, y, z, w>>; the axis i of the C++ *)
(* code (0..3) is component i + 1 of the tuple.                            *)
(***************************************************************************)
EXTENDS Integers, Sequences, FiniteSets, TLC

VARIABLES
    camPosition,     \* GridCamera4D::currentPosition_
    camPrevPosition, \* GridCamera4D::previousPosition_
    camDirection,    \* GridCamera4D::currentDirection_
    camRotation,     \* GridCamera4D::currentRotation_.rotation_ (fixed point, see One)
    camDelta,        \* GridCamera4D::rotationDelta_
    snake,           \* GameSimulation::snake_ (positions, head first)
    previousSnake,   \* GameSimulation::previousSnake_
    targetPosition,  \* GameSimulation::targetPosition_
    targetQueue,     \* GameSimulation::targetQueue_
    pendingGrowth,   \* GameSimulation::pendingGrowth_
    nextAction,      \* GameSimulation::nextAction_
    bestAction,      \* GameSimulation::bestAction_
    gameOver,        \* GameSimulation::gameOver_
    deathAnimation,  \* GameSimulation::deathAnimation_
    enableRolls,     \* GameSimulation::enableRolls_
    path,            \* GridPathFinder4D::path_
    cameFrom,        \* GridPathFinder4D::cameFrom_
    search,          \* the call of UpdatePath in progress, if any: its position,
                     \* and openSet_, gScore_, fScore_ (cleared by each search)
    size,            \* GameSimulation::size_ and GridPathFinder4D::gridSize_
    session,         \* the GameSession that owns the simulation, if any
    redRotationUsed, \* TutorialGameSession::redRotationUsed_
    blueRotationUsed, \* TutorialGameSession::blueRotationUsed_
    exactGuidelines, \* GameSimulation::exactGuidelines_
    call,            \* the last operation and what it observed (history)
    history,         \* what each Tick so far did (history)
    steps            \* number of operations performed so far (bounded)

vars == <<camPosition, camPrevPosition, camDirection, camRotation, camDelta,
          snake, previousSnake, targetPosition, targetQueue, pendingGrowth,
          nextAction, bestAction, gameOver, deathAnimation, enableRolls,
          path, cameFrom, search, size, session, redRotationUsed, blueRotationUsed,
          exactGuidelines, call, history, steps>>

-----------------------------------------------------------------------------
(* Bounds of the model *)

\* size_ of the simulations explored: edge length of the lattice (the game uses 11)
Size == 2

\* gridSize_ of the path finders explored on their own
GridSize == 3

\* Ticks explored from the initial state of the game
MaxTicks == 4

\* Step calls made on one camera
MaxSteps == 4

\* calls of UpdatePath made on one path finder
MaxCalls == 1

\* length of the scripted target lists given to Reset
MaxScript == 2

\* Ticks explored in a simulation whose lattice has the edge length GridSize
MaxGridTicks == 2

\* keys pressed within one frame
MaxKeys == 2

\* Ticks explored in a simulation played until the snake fills the lattice
MaxFillTicks == 15

\* cells of the lattice left without a scripted target in such a simulation
MaxSampled == 2

-----------------------------------------------------------------------------
(* Program constants *)

movementCost == 1
rotationCost == 100
M_MAX_INT == 2147483647
MinElements == 3
lengthIncrement == 3
maxRetry == 10

-----------------------------------------------------------------------------
(* Math4D: integer vectors *)

Axes == 1..4

ZeroVector == <<0, 0, 0, 0>>

VecAdd(lhs, rhs) == [i \in Axes |-> lhs[i] + rhs[i]]

VecSub(lhs, rhs) == [i \in Axes |-> lhs[i] - rhs[i]]

VecScale(lhs, rhs) == [i \in Axes |-> lhs * rhs[i]]

DotProduct(lhs, rhs) ==
    lhs[1] * rhs[1] + lhs[2] * rhs[2] + lhs[3] * rhs[3] + lhs[4] * rhs[4]

Abs(x) == IF x < 0 THEN -x ELSE x

IsInside(value, begin, end) ==
    \A i \in Axes : ~(begin[i] > value[i] \/ value[i] >= end[i])

\* the cells of the lattice [0, size)^4
Cells == [Axes -> 0..(size - 1)]

\* the eight axis-aligned unit vectors, in the order of the neighbour loop
Offset(i) == [a \in Axes |-> IF a = (i \div 2) + 1
                             THEN (IF i % 2 /= 0 THEN 1 ELSE -1)
                             ELSE 0]

Directions == {Offset(i) : i \in 0..7}

-----------------------------------------------------------------------------
(* GridPathFinder4D *)

Capacity == size * size * size * size

FlattenIndex(pos) == ((pos[4] * size + pos[3]) * size + pos[2]) * size + pos[1]

\* cameFrom_ as the first resize leaves it: value-initialised elements
EmptyCameFrom == [i \in 0..(Capacity - 1) |-> ZeroVector]

\* operator < of OpenSetNode: the smaller fScore is the greater node
NodeLess(lhs, rhs) == lhs.fScore > rhs.fScore

\* openSet_ is a binary max-heap under NodeLess, kept in a vector; position p
\* of the vector is element p + 1 of the sequence.
RECURSIVE PromoteHeap(_, _, _, _)
PromoteHeap(heap, topPosition, position, value) ==
    LET parentPosition == (position - 1) \div 2
    IN IF position > topPosition /\ NodeLess(heap[parentPosition + 1], value)
       THEN PromoteHeap([heap EXCEPT ![position + 1] = heap[parentPosition + 1]],
                        topPosition, parentPosition, value)
       ELSE [heap EXCEPT ![position + 1] = value]

RECURSIVE AdjustHeap(_, _, _, _, _, _)
AdjustHeap(heap, topPosition, heapSize, position, childPosition, value) ==
    IF childPosition < heapSize
    THEN LET child == IF NodeLess(heap[childPosition + 1], heap[childPosition])
                      THEN childPosition - 1 ELSE childPosition
         IN AdjustHeap([heap EXCEPT ![position + 1] = heap[child + 1]],
                       topPosition, heapSize, child, 2 * child + 2, value)
    ELSE IF childPosition = heapSize
    THEN PromoteHeap([heap EXCEPT ![position + 1] = heap[childPosition]],
                     topPosition, childPosition - 1, value)
    ELSE PromoteHeap(heap, topPosition, position, value)

\* openSet_.push(node)
HeapPush(heap, node) == PromoteHeap(Append(heap, node), 0, Len(heap), node)

\* a pop that leaves the top in the open set
HeapPopNothing(heap) == heap

\* openSet_.pop(): the top goes to the back of the vector and is dropped
HeapPop(heap) ==
    LET n == Len(heap)
        moved == [heap EXCEPT ![n] = heap[1]]
    IN IF n = 1 THEN <<>>
       ELSE SubSeq(AdjustHeap(moved, 0, n - 1, 0, 2, heap[n]), 1, n - 1)

\* openSet_.change(i): the node at position i is taken out and promoted again
HeapChange(heap, i) ==
    LET n == Len(heap)
        moved == [heap EXCEPT ![n] = heap[i + 1]]
        removed == AdjustHeap(moved, 0, n - 1, i, 2 * i + 2, heap[n])
    IN PromoteHeap(removed, 0, n - 1, removed[n])

EstimateWeightToFinish(from, position, target) ==
    LET currentDirection == VecSub(position, from[FlattenIndex(position)])
        targetDelta == VecSub(target, position)
        projectionDistance == DotProduct(targetDelta, currentDirection)
        projectedTargetDelta ==
            VecSub(targetDelta, VecScale(projectionDistance, currentDirection))
        turns == Cardinality({i \in Axes : projectedTargetDelta[i] /= 0})
    IN turns * rotationCost
       + (IF projectionDistance < 0 THEN 2 * rotationCost ELSE 0)
       + movementCost * (Abs(targetDelta[1]) + Abs(targetDelta[2])
                         + Abs(targetDelta[3]) + Abs(targetDelta[4]))

CalculateMovementWeight(from, position, offset) ==
    LET currentDirection == VecSub(position, from[FlattenIndex(position)])
        projectionDistance == DotProduct(offset, currentDirection)
    IN IF projectionDistance > 0 THEN movementCost
       ELSE IF projectionDistance = 0 THEN rotationCost
       ELSE 2 * rotationCost

\* position of the open node at the given cell (a cell is queued once), or -1
FindOpen(open, position) ==
    IF \E i \in 1..Len(open) : open[i].position = position
    THEN (CHOOSE i \in 1..Len(open) : open[i].position = position) - 1
    ELSE -1

AddToOpenSet(open, fScore, position) ==
    LET index == FlattenIndex(position)
        i == FindOpen(open, position)
    IN IF i >= 0
       THEN HeapChange([open EXCEPT ![i + 1].fScore = fScore[index]], i)
       ELSE HeapPush(open, [position |-> position, fScore |-> fScore[index]])

\* the parent-link walk of ReconstructPath, target first
RECURSIVE WalkBack(_, _, _)
WalkBack(from, startPosition, pathElement) ==
    IF pathElement = startPosition THEN <<>>
    ELSE <<pathElement>> \o WalkBack(from, startPosition, from[FlattenIndex(pathElement)])

Reverse(s) == [i \in 1..Len(s) |-> s[Len(s) + 1 - i]]

\* ReconstructPath without the final reverse
ReconstructPathNotReversed(from, startPosition, target) ==
    WalkBack(from, startPosition, target)
        \o <<startPosition, from[FlattenIndex(startPosition)]>>

ReconstructPath(from, startPosition, target) ==
    Reverse(WalkBack(from, startPosition, target)
            \o <<startPosition, from[FlattenIndex(startPosition)]>>)

\* the pass with checkCell replaced by the test of the bounds
RelaxWithinBounds(st, currentPosition, i, target, legal) ==
    LET offset == Offset(i)
        neighborPosition == VecAdd(currentPosition, offset)
        neighborIndex == FlattenIndex(neighborPosition)
        currentIndex == FlattenIndex(currentPosition)
        gScoreNew == st.gScore[currentIndex]
                     + CalculateMovementWeight(st.cameFrom, currentPosition, offset)
        weightToFinish == EstimateWeightToFinish(st.cameFrom, neighborPosition, target)
        fScoreNew == [st.fScore EXCEPT ![neighborIndex] = gScoreNew + weightToFinish]
    IN IF neighborPosition \notin Cells THEN st
       ELSE IF gScoreNew < st.gScore[neighborIndex]
       THEN [open |-> AddToOpenSet(st.open, fScoreNew, neighborPosition),
             cameFrom |-> [st.cameFrom EXCEPT ![neighborIndex] = currentPosition],
             gScore |-> [st.gScore EXCEPT ![neighborIndex] = gScoreNew],
             fScore |-> fScoreNew, done |-> FALSE, found |-> FALSE]
       ELSE st

\* one pass of the neighbour loop for neighbour i of the popped cell
Relax(st, currentPosition, i, target, legal) ==
    LET offset == Offset(i)
        neighborPosition == VecAdd(currentPosition, offset)
        neighborIndex == FlattenIndex(neighborPosition)
        currentIndex == FlattenIndex(currentPosition)
        gScoreNew == st.gScore[currentIndex]
                     + CalculateMovementWeight(st.cameFrom, currentPosition, offset)
        weightToFinish == EstimateWeightToFinish(st.cameFrom, neighborPosition, target)
        fScoreNew == [st.fScore EXCEPT ![neighborIndex] = gScoreNew + weightToFinish]
    IN IF neighborPosition \notin legal THEN st
       ELSE IF gScoreNew < st.gScore[neighborIndex]
       THEN [open |-> AddToOpenSet(st.open, fScoreNew, neighborPosition),
             cameFrom |-> [st.cameFrom EXCEPT ![neighborIndex] = currentPosition],
             gScore |-> [st.gScore EXCEPT ![neighborIndex] = gScoreNew],
             fScore |-> fScoreNew, done |-> FALSE, found |-> FALSE]
       ELSE st

\* the neighbour loop without the two neighbours along W
RECURSIVE NeighborLoopWithoutW(_, _, _, _, _)
NeighborLoopWithoutW(st, currentPosition, i, target, legal) ==
    IF i >= 6 THEN st
    ELSE NeighborLoopWithoutW(Relax(st, currentPosition, i, target, legal),
                              currentPosition, i + 1, target, legal)

RECURSIVE NeighborLoop(_, _, _, _, _)
NeighborLoop(st, currentPosition, i, target, legal) ==
    IF i >= 8 THEN st
    ELSE CHOOSE end \in {NeighborLoop(relaxed, currentPosition, i + 1, target, legal) :
                            relaxed \in {Relax(st, currentPosition, i, target, legal)}} :
             TRUE

\* one pass of the while loop of UpdatePath; a finished search stays as it is
SearchStep(st, startPosition, target, legal) ==
    IF st.done THEN st
    ELSE IF st.open = <<>> THEN [st EXCEPT !.done = TRUE]
    ELSE LET currentPosition == st.open[1].position
             popped == [st EXCEPT !.open = HeapPop(st.open)]
         IN IF currentPosition = target
            THEN [popped EXCEPT !.done = TRUE, !.found = TRUE]
            ELSE NeighborLoop(popped, currentPosition, 0, target, legal)

\* n passes of the while loop
RECURSIVE SearchSteps(_, _, _, _, _)
SearchSteps(st, n, startPosition, target, legal) ==
    IF n = 0 \/ st.done THEN st
    ELSE IF n = 1 THEN SearchStep(st, startPosition, target, legal)
    ELSE SearchSteps(SearchSteps(st, n \div 2, startPosition, target, legal),
                     n - n \div 2, startPosition, target, legal)

\* the while loop of UpdatePath, run until it returns
RECURSIVE SearchLoop(_, _, _, _, _)
SearchLoop(st, n, startPosition, target, legal) ==
    IF st.done THEN st
    ELSE SearchLoop(SearchSteps(st, n, startPosition, target, legal),
                    2 * n, startPosition, target, legal)

\* what UpdatePath leaves when its while loop has ended in the state end: the
\* returned flag, path_ and cameFrom_, and the g score of the target
SearchResult(end, startPosition, target) ==
    [result |-> end.found,
     path |-> IF end.found THEN ReconstructPath(end.cameFrom, startPosition, target)
              ELSE <<>>,
     cameFrom |-> end.cameFrom,
     searched |-> TRUE,
     cost |-> IF end.found THEN end.gScore[FlattenIndex(target)] ELSE 0]

\* "Rebuild path from scratch", up to the while loop
SearchStart(from, startPosition, startDirection, target) ==
    LET startIndex == FlattenIndex(startPosition)
        from0 == [from EXCEPT ![startIndex] = VecSub(startPosition, startDirection)]
        gScore0 == [i \in 0..(Capacity - 1) |-> IF i = startIndex THEN 0 ELSE M_MAX_INT]
        fScore0 == [i \in 0..(Capacity - 1) |->
                       IF i = startIndex
                       THEN EstimateWeightToFinish(from0, startPosition, target)
                       ELSE M_MAX_INT]
    IN [open |-> AddToOpenSet(<<>>, fScore0, startPosition),
        cameFrom |-> from0, gScore |-> gScore0,
        fScore |-> fScore0, done |-> FALSE, found |-> FALSE]

\* "Rebuild path from scratch"
Search(from, startPosition, startDirection, target, legal) ==
    SearchResult(SearchLoop(SearchStart(from, startPosition, startDirection, target),
                            8, startPosition, target, legal),
                 startPosition, target)

\* no call of UpdatePath is in progress
Idle == [pc |-> "idle"]

\* no reuse of the stored path
CacheHitNever(cached, startPosition, startDirection, target) == 0

\* "Try to reuse previously calculated path": the least index that matches, or 0
CacheHit(cached, startPosition, startDirection, target) ==
    IF Len(cached) >= MinElements /\ cached[Len(cached)] = target
    THEN LET hits == {i \in 2..Len(cached) :
                         /\ cached[i] = startPosition
                         /\ VecSub(cached[i], cached[i - 1]) = startDirection}
         IN IF hits = {} THEN 0 ELSE CHOOSE i \in hits : \A j \in hits : i <= j
    ELSE 0

\* UpdatePath that reuses the stored path without erasing its outdated elements
UpdatePathNoErase(cached, from, startPosition, startDirection, target, legal) ==
    IF CacheHit(cached, startPosition, startDirection, target) > 0
    THEN [result |-> TRUE, path |-> cached,
          cameFrom |-> from, searched |-> FALSE, cost |-> 0]
    ELSE Search(from, startPosition, startDirection, target, legal)

\* UpdatePath: the returned flag, the new path_ and cameFrom_, and whether a
\* search ran. legal is the set of cells checkCell accepts.
UpdatePath(cached, from, startPosition, startDirection, target, legal) ==
    LET hit == CacheHit(cached, startPosition, startDirection, target)
    IN IF hit > 0
       THEN [result |-> TRUE, path |-> SubSeq(cached, hit - 1, Len(cached)),
             cameFrom |-> from, searched |-> FALSE, cost |-> 0]
       ELSE Search(from, startPosition, startDirection, target, legal)

\* GetNextCellOffset taking the step that led to the start
GetNextCellOffsetOfStart(p) ==
    IF Len(p) >= MinElements THEN VecSub(p[2], p[1]) ELSE ZeroVector

GetNextCellOffset(p) ==
    IF Len(p) >= MinElements THEN VecSub(p[3], p[2]) ELSE ZeroVector

-----------------------------------------------------------------------------
(* Math4D: floats of the rotation matrices, in fixed point *)

\* A float is modelled as a number of 1/One: 1.0f is One. Cos(90) is not 0.0f
\* in float arithmetic but a tiny nonzero value; it is one unit here.
One == 1024

CosQuarterTurn == -1

Cos(angle) == IF angle = 0 THEN One ELSE CosQuarterTurn

Sin(angle) == IF angle = 0 THEN 0 ELSE IF angle > 0 THEN One ELSE -One

\* RoundToInt: the nearest integer, halves away from zero
RoundToInt(value) ==
    IF value >= 0 THEN (2 * value + One) \div (2 * One)
    ELSE -((One - 2 * value) \div (2 * One))

\* Round: the nearest integer, as a float
Round(value) == RoundToInt(value) * One

\* the product of two floats
FloatMul(lhs, rhs) ==
    LET p == lhs * rhs
    IN IF p >= 0 THEN (2 * p + One) \div (2 * One)
       ELSE -((One - 2 * p) \div (2 * One))

IDENTITY == [r \in Axes |-> [c \in Axes |-> IF r = c THEN One ELSE 0]]

\* MakeRotation with the two sines exchanged: the rotation the other way round
MakeRotationOtherWay(axis1, axis2, angle) ==
    [r \in Axes |-> [c \in Axes |->
        IF r = axis1 + 1 /\ c = axis1 + 1 THEN Cos(angle)
        ELSE IF r = axis1 + 1 /\ c = axis2 + 1 THEN -Sin(angle)
        ELSE IF r = axis2 + 1 /\ c = axis1 + 1 THEN Sin(angle)
        ELSE IF r = axis2 + 1 /\ c = axis2 + 1 THEN Cos(angle)
        ELSE IF r = c THEN One ELSE 0]]

\* Matrix4x5::MakeRotation(axis1, axis2, angle), axes 0..3
MakeRotation(axis1, axis2, angle) ==
    [r \in Axes |-> [c \in Axes |->
        IF r = axis1 + 1 /\ c = axis1 + 1 THEN Cos(angle)
        ELSE IF r = axis1 + 1 /\ c = axis2 + 1 THEN Sin(angle)
        ELSE IF r = axis2 + 1 /\ c = axis1 + 1 THEN -Sin(angle)
        ELSE IF r = axis2 + 1 /\ c = axis2 + 1 THEN Cos(angle)
        ELSE IF r = c THEN One ELSE 0]]

\* RotationDelta4D::AsMatrix(1.0f)
AsMatrix(delta) ==
    IF delta.angle /= 0 THEN MakeRotation(delta.axis1, delta.axis2, delta.angle)
    ELSE IDENTITY

\* rotation_ * rhs.rotation_
MatMul(lhs, rhs) ==
    [r \in Axes |-> [c \in Axes |->
        FloatMul(lhs[r][1], rhs[1][c]) + FloatMul(lhs[r][2], rhs[2][c])
        + FloatMul(lhs[r][3], rhs[3][c]) + FloatMul(lhs[r][4], rhs[4][c])]]

\* RoundVector4(rotation * v) for the basis vector v of the given axis (0..3)
RoundColumn(rotation, axis) == [r \in Axes |-> RoundToInt(rotation[r][axis + 1])]

-----------------------------------------------------------------------------
(* GridCamera4D *)

GetCurrentDirection(rotation) == RoundColumn(rotation, 2)

GetCurrentUp(rotation) == RoundColumn(rotation, 1)

GetCurrentRight(rotation) == RoundColumn(rotation, 0)

GetCurrentBlue(rotation) == RoundColumn(rotation, 3)

\* Snap without the rounding: the product is kept as computed
SnapNothing(rotation) == rotation

\* "Snap to axises to avoid precision loss"
Snap(rotation) == [r \in Axes |-> [c \in Axes |-> Round(rotation[r][c])]]

\* Step that moves whatever its second argument
StepMovesAlways(camera, delta, move) ==
    LET turned == MatMul(camera.rotation, AsMatrix(delta))
        direction == GetCurrentDirection(turned)
    IN [position |-> VecAdd(camera.position, direction),
        previous |-> camera.position,
        direction |-> direction,
        rotation |-> Snap(turned),
        delta |-> delta]

\* Step that moves by two cells
StepTwoCells(camera, delta, move) ==
    LET turned == MatMul(camera.rotation, AsMatrix(delta))
        direction == GetCurrentDirection(turned)
    IN [position |-> IF move THEN VecAdd(camera.position, VecScale(2, direction))
                     ELSE camera.position,
        previous |-> camera.position,
        direction |-> direction,
        rotation |-> Snap(turned),
        delta |-> delta]

\* GridCamera4D::Step on a camera [position, previous, direction, rotation, delta]
Step(camera, delta, move) ==
    LET turned == MatMul(camera.rotation, AsMatrix(delta))
        direction == GetCurrentDirection(turned)
    IN [position |-> IF move THEN VecAdd(camera.position, direction)
                     ELSE camera.position,
        previous |-> camera.position,
        direction |-> direction,
        rotation |-> Snap(turned),
        delta |-> delta]

\* M_EPSILON is below every nonzero angle of a rotation delta
IsRotating(delta) == delta.angle > 0

IsColorRotating(delta) == delta.axis1 = 3 \/ delta.axis2 = 3

\* Reset that leaves the position at the origin
CameraResetAtOrigin(position, direction, rotation) ==
    [position |-> ZeroVector, previous |-> ZeroVector, direction |-> direction,
     rotation |-> rotation, delta |-> [axis1 |-> 0, axis2 |-> 0, angle |-> 0]]

\* GridCamera4D::Reset
CameraReset(position, direction, rotation) ==
    [position |-> position, previous |-> position, direction |-> direction,
     rotation |-> rotation, delta |-> [axis1 |-> 0, axis2 |-> 0, angle |-> 0]]

-----------------------------------------------------------------------------
(* GameSimulation *)

UserAction == {"None", "Left", "Right", "Up", "Down", "Red", "Blue", "XRoll"}

\* the table with Roll in the plane of the forward and the hyper axis
rotationsRollThroughForward(action) ==
    CASE action = "None"  -> [axis1 |-> 0, axis2 |-> 1, angle |-> 0]
      [] action = "Left"  -> [axis1 |-> 0, axis2 |-> 2, angle |-> -90]
      [] action = "Right" -> [axis1 |-> 0, axis2 |-> 2, angle |-> 90]
      [] action = "Up"    -> [axis1 |-> 1, axis2 |-> 2, angle |-> 90]
      [] action = "Down"  -> [axis1 |-> 1, axis2 |-> 2, angle |-> -90]
      [] action = "Red"   -> [axis1 |-> 2, axis2 |-> 3, angle |-> 90]
      [] action = "Blue"  -> [axis1 |-> 2, axis2 |-> 3, angle |-> -90]
      [] action = "XRoll" -> [axis1 |-> 2, axis2 |-> 3, angle |-> 90]

\* the table with Up and Down in the plane of the up and the hyper axis
rotationsUpThroughHyper(action) ==
    CASE action = "None"  -> [axis1 |-> 0, axis2 |-> 1, angle |-> 0]
      [] action = "Left"  -> [axis1 |-> 0, axis2 |-> 2, angle |-> -90]
      [] action = "Right" -> [axis1 |-> 0, axis2 |-> 2, angle |-> 90]
      [] action = "Up"    -> [axis1 |-> 1, axis2 |-> 3, angle |-> 90]
      [] action = "Down"  -> [axis1 |-> 1, axis2 |-> 3, angle |-> -90]
      [] action = "Red"   -> [axis1 |-> 2, axis2 |-> 3, angle |-> 90]
      [] action = "Blue"  -> [axis1 |-> 2, axis2 |-> 3, angle |-> -90]
      [] action = "XRoll" -> [axis1 |-> 0, axis2 |-> 3, angle |-> 90]

\* the table "rotations" of Tick
rotations(action) ==
    CASE action = "None"  -> [axis1 |-> 0, axis2 |-> 1, angle |-> 0]
      [] action = "Left"  -> [axis1 |-> 0, axis2 |-> 2, angle |-> -90]
      [] action = "Right" -> [axis1 |-> 0, axis2 |-> 2, angle |-> 90]
      [] action = "Up"    -> [axis1 |-> 1, axis2 |-> 2, angle |-> 90]
      [] action = "Down"  -> [axis1 |-> 1, axis2 |-> 2, angle |-> -90]
      [] action = "Red"   -> [axis1 |-> 2, axis2 |-> 3, angle |-> 90]
      [] action = "Blue"  -> [axis1 |-> 2, axis2 |-> 3, angle |-> -90]
      [] action = "XRoll" -> [axis1 |-> 0, axis2 |-> 3, angle |-> 90]

\* IsOutside that forgets the upper faces of the box
IsOutsideBelowOnly(position) == \E a \in Axes : position[a] < 0

IsOutside(position) ==
    ~IsInside(position, ZeroVector, <<size, size, size, size>>)

\* the positions of snake_[2 ..]: the loop over the snake started one too late
TailCellsWithoutNeck(cells) == {cells[i] : i \in 3..Len(cells)}

\* the positions of snake_[1 ..]
TailCells(cells) == {cells[i] : i \in 2..Len(cells)}

\* IsValidHeadPosition without the loop over the snake
IsValidHeadPositionNoSnake(cells, position) == ~IsOutside(position)

IsValidHeadPosition(cells, position) ==
    ~IsOutside(position) /\ position \notin TailCells(cells)

IsBlockedBySnake(cells, pos) == \E i \in 1..Len(cells) : cells[i] = pos

\* GetAvailablePosition without the test IsBlockedBySnake
AvailablePositionsAnyCell(cells) == Cells

\* the cells GetAvailablePosition can return: a random cell that is not blocked,
\* or the first free cell of the scan; empty when it fails
AvailablePositions(cells) == {c \in Cells : ~IsBlockedBySnake(cells, c)}

\* the snake Reset builds
InitialSnake ==
    [i \in 1..3 |-> <<size \div 2, size \div 2, (size * 1) \div 4 - (i - 1), size \div 2>>]

DefaultTarget == <<size \div 2, size \div 2, (size * 3) \div 4, size \div 2>>

\* EstimateBestAction with the check for roll made before the tests for Red
\* and Blue
ActionOfPathRollFirst(found, position, rotation, target, rolls) ==
    LET offset == GetNextCellOffset(found.path)
        rotateLeftRight == DotProduct(offset, GetCurrentRight(rotation))
        rotateUpDown == DotProduct(offset, GetCurrentUp(rotation))
        rotateRedBlue == DotProduct(offset, GetCurrentBlue(rotation))
        offsetX == DotProduct(VecSub(target, position), GetCurrentRight(rotation))
        offsetW == DotProduct(VecSub(target, position), GetCurrentBlue(rotation))
        action == IF rotateLeftRight < 0 THEN "Left"
                  ELSE IF rotateLeftRight > 0 THEN "Right"
                  ELSE IF rotateUpDown < 0 THEN "Down"
                  ELSE IF rotateUpDown > 0 THEN "Up"
                  ELSE IF rolls /\ offsetX = 0 /\ offsetW /= 0 THEN "XRoll"
                  ELSE IF rotateRedBlue < 0 THEN "Red"
                  ELSE IF rotateRedBlue > 0 THEN "Blue"
                  ELSE "None"
    IN [action |-> IF found.result THEN action ELSE "None",
        path |-> found.path, cameFrom |-> found.cameFrom,
        searched |-> found.searched, found |-> found.result]

\* EstimateBestAction with the roll recommended whether enabled or not
ActionOfPathRollAnyway(found, position, rotation, target, rolls) ==
    LET offset == GetNextCellOffset(found.path)
        rotateLeftRight == DotProduct(offset, GetCurrentRight(rotation))
        rotateUpDown == DotProduct(offset, GetCurrentUp(rotation))
        rotateRedBlue == DotProduct(offset, GetCurrentBlue(rotation))
        offsetX == DotProduct(VecSub(target, position), GetCurrentRight(rotation))
        offsetW == DotProduct(VecSub(target, position), GetCurrentBlue(rotation))
        action == IF rotateLeftRight < 0 THEN "Left"
                  ELSE IF rotateLeftRight > 0 THEN "Right"
                  ELSE IF rotateUpDown < 0 THEN "Down"
                  ELSE IF rotateUpDown > 0 THEN "Up"
                  ELSE IF rotateRedBlue < 0 THEN "Red"
                  ELSE IF rotateRedBlue > 0 THEN "Blue"
                  ELSE IF offsetX = 0 /\ offsetW /= 0 THEN "XRoll"
                  ELSE "None"
    IN [action |-> IF found.result THEN action ELSE "None",
        path |-> found.path, cameFrom |-> found.cameFrom,
        searched |-> found.searched, found |-> found.result]

\* EstimateBestAction with Red and Blue exchanged
ActionOfPathBlueForRed(found, position, rotation, target, rolls) ==
    LET offset == GetNextCellOffset(found.path)
        rotateLeftRight == DotProduct(offset, GetCurrentRight(rotation))
        rotateUpDown == DotProduct(offset, GetCurrentUp(rotation))
        rotateRedBlue == DotProduct(offset, GetCurrentBlue(rotation))
        offsetX == DotProduct(VecSub(target, position), GetCurrentRight(rotation))
        offsetW == DotProduct(VecSub(target, position), GetCurrentBlue(rotation))
        action == IF rotateLeftRight < 0 THEN "Left"
                  ELSE IF rotateLeftRight > 0 THEN "Right"
                  ELSE IF rotateUpDown < 0 THEN "Down"
                  ELSE IF rotateUpDown > 0 THEN "Up"
                  ELSE IF rotateRedBlue < 0 THEN "Blue"
                  ELSE IF rotateRedBlue > 0 THEN "Red"
                  ELSE IF rolls /\ offsetX = 0 /\ offsetW /= 0 THEN "XRoll"
                  ELSE "None"
    IN [action |-> IF found.result THEN action ELSE "None",
        path |-> found.path, cameFrom |-> found.cameFrom,
        searched |-> found.searched, found |-> found.result]

\* EstimateBestAction after its call of UpdatePath, which left found
ActionOfPath(found, position, rotation, target, rolls) ==
    LET offset == GetNextCellOffset(found.path)
        rotateLeftRight == DotProduct(offset, GetCurrentRight(rotation))
        rotateUpDown == DotProduct(offset, GetCurrentUp(rotation))
        rotateRedBlue == DotProduct(offset, GetCurrentBlue(rotation))
        offsetX == DotProduct(VecSub(target, position), GetCurrentRight(rotation))
        offsetW == DotProduct(VecSub(target, position), GetCurrentBlue(rotation))
        action == IF rotateLeftRight < 0 THEN "Left"
                  ELSE IF rotateLeftRight > 0 THEN "Right"
                  ELSE IF rotateUpDown < 0 THEN "Down"
                  ELSE IF rotateUpDown > 0 THEN "Up"
                  ELSE IF rotateRedBlue < 0 THEN "Red"
                  ELSE IF rotateRedBlue > 0 THEN "Blue"
                  ELSE IF rolls /\ offsetX = 0 /\ offsetW /= 0 THEN "XRoll"
                  ELSE "None"
    IN [action |-> IF found.result THEN action ELSE "None",
        path |-> found.path, cameFrom |-> found.cameFrom,
        searched |-> found.searched, found |-> found.result]

\* the blend factors asked about: accumulated time over the period, in [0, 1)
BlendFactors == {0, One \div 4, One \div 3, One \div 2, One - 1}

\* animationSettings_.cameraRotationSpeed_: 3.0f, and 1.0f while a tutorial hint
\* is shown
RotationSpeeds == {One, 3 * One}

GetCurrentAnimationType(delta, blendFactor, cameraRotationSpeed) ==
    IF FloatMul(blendFactor, cameraRotationSpeed) >= One THEN "Idle"
    ELSE IF IsColorRotating(delta) THEN "ColorRotation"
    ELSE IF IsRotating(delta) THEN "Rotation"
    ELSE "Idle"

\* EstimateBestAction with a checkCell that tests the bounds only
EstimateBestActionThroughTail(cached, from, position, rotation, cells, target, rolls) ==
    IF IsOutside(position)
    THEN [action |-> "None", path |-> cached, cameFrom |-> from,
          searched |-> FALSE, found |-> FALSE]
    ELSE ActionOfPath(UpdatePath(cached, from, position, GetCurrentDirection(rotation),
                                 target, Cells),
                      position, rotation, target, rolls)

\* EstimateBestAction: the action, and the path finder's path_ and cameFrom_ after it
EstimateBestAction(cached, from, position, rotation, cells, target, rolls) ==
    IF IsOutside(position)
    THEN [action |-> "None", path |-> cached, cameFrom |-> from,
          searched |-> FALSE, found |-> FALSE]
    ELSE ActionOfPath(UpdatePath(cached, from, position, GetCurrentDirection(rotation),
                                 target, {c \in Cells : IsValidHeadPosition(cells, c)}),
                      position, rotation, target, rolls)

-----------------------------------------------------------------------------
(* The state machine of one GameSimulation *)

\* the camera variables hold the camera given
SetCameraTo(camera) ==
    /\ camPosition = camera.position
    /\ camPrevPosition = camera.previous
    /\ camDirection = camera.direction
    /\ camRotation = camera.rotation
    /\ camDelta = camera.delta

Camera == [position |-> camPosition, previous |-> camPrevPosition,
           direction |-> camDirection, rotation |-> camRotation, delta |-> camDelta]

SetCamera(camera) ==
    /\ camPosition' = camera.position
    /\ camPrevPosition' = camera.previous
    /\ camDirection' = camera.direction
    /\ camRotation' = camera.rotation
    /\ camDelta' = camera.delta

\* the scripted target lists Reset is called with: the cells on the line the
\* snake starts on, up to MaxScript of them
ScriptCells == {c \in Cells : c[1] = size \div 2 /\ c[2] = size \div 2 /\ c[4] = size \div 2}

TargetScripts ==
    UNION {[1..n -> ScriptCells] : n \in 0..MaxScript}

\* GameSimulation(edge) followed by Reset(targets) for one of the scripts given:
\* every member has its default initialiser, the path finder is empty
NewGame(edge, scripts) ==
    /\ size = edge
    /\ search = Idle
    /\ \E targets \in scripts :
        LET head == InitialSnake[1]
            camera == CameraReset(head, <<0, 0, 1, 0>>, IDENTITY)
            target == IF targets /= <<>> THEN Head(targets) ELSE DefaultTarget
        IN \E first \in {EstimateBestAction(<<>>, EmptyCameFrom, head, IDENTITY,
                                            InitialSnake, DefaultTarget, TRUE)} :
           \E best \in {EstimateBestAction(first.path, first.cameFrom, head, IDENTITY,
                                           InitialSnake, target, TRUE)} :
           /\ camPosition = camera.position
           /\ camPrevPosition = camera.previous
           /\ camDirection = camera.direction
           /\ camRotation = camera.rotation
           /\ camDelta = camera.delta
           /\ snake = InitialSnake
           /\ previousSnake = InitialSnake
           /\ targetPosition = target
           /\ targetQueue = (IF targets /= <<>> THEN Tail(targets) ELSE <<>>)
           /\ pendingGrowth = 0
           /\ nextAction = "None"
           /\ bestAction = best.action
           /\ gameOver = FALSE
           /\ deathAnimation = FALSE
           /\ enableRolls = TRUE
           /\ path = best.path
           /\ cameFrom = best.cameFrom
           /\ call = [op |-> "Reset", searched |-> best.searched, found |-> best.found]
           /\ history = <<>>
           /\ steps = 0

\* a simulation used on its own, without a GameSession
NoSession ==
    /\ session = "None"
    /\ redRotationUsed = FALSE
    /\ blueRotationUsed = FALSE
    /\ exactGuidelines = FALSE

SessionUnchanged ==
    UNCHANGED <<session, redRotationUsed, blueRotationUsed, exactGuidelines>>

Init == NewGame(Size, TargetScripts) /\ NoSession

SetNextAction(action) ==
    /\ nextAction' = (IF ~gameOver THEN action ELSE nextAction)
    /\ call' = [op |-> "SetNextAction"]
    /\ UNCHANGED <<camPosition, camPrevPosition, camDirection, camRotation, camDelta,
                   search,
                   snake, previousSnake, targetPosition, targetQueue, pendingGrowth,
                   bestAction, gameOver, deathAnimation, enableRolls, path, cameFrom,
                   size, history, steps>>
    /\ SessionUnchanged

\* Tick without the test of the next action
AppliedActionUntested(camera, action, over) == action

\* "if the next action lead to immediate death, rollback it": the action Tick
\* applies, found with a copy of the camera
AppliedAction(camera, action, over) ==
    IF ~over /\ IsOutside(Step(camera, rotations(action), TRUE).position)
    THEN "None" ELSE action

\* the tail update without the decrement of the pending growth
TailUpdateNoDecrement(moved, growth) ==
    IF growth = 0
    THEN [cells |-> SubSeq(moved, 1, Len(moved) - 1), growth |-> 0]
    ELSE [cells |-> moved, growth |-> growth]

\* "Remove tail segment if doesn't grow": the cells kept and the growth left
TailUpdate(moved, growth) ==
    IF growth = 0
    THEN [cells |-> SubSeq(moved, 1, Len(moved) - 1), growth |-> 0]
    ELSE [cells |-> moved, growth |-> growth - 1]

\* Tick, from "Remove tail segment if doesn't grow" to its end; moved is the
\* snake with the new head, growth the pending growth after the target check
FinishTick(pending, rolls, applied, moved, target, queue, growth, assigned) ==
    LET cells == TailUpdate(moved, growth).cells
        dead == ~IsValidHeadPosition(cells, cells[1])
    IN /\ snake' = cells
       /\ pendingGrowth' = TailUpdate(moved, growth).growth
       /\ targetPosition' = target
       /\ targetQueue' = queue
       /\ gameOver' = dead
       /\ deathAnimation' = dead
       /\ IF dead
          THEN /\ call' = [op |-> "Tick", running |-> TRUE, applied |-> applied,
                           pending |-> pending, assigned |-> assigned,
                           moved |-> moved,
                           searched |-> FALSE, found |-> FALSE]
               /\ UNCHANGED <<bestAction, path, cameFrom>>
          ELSE \E best \in {EstimateBestAction(path, cameFrom, cells[1], camRotation',
                                               cells, target, rolls)} :
                   /\ bestAction' = best.action
                   /\ path' = best.path
                   /\ cameFrom' = best.cameFrom
                   /\ call' = [op |-> "Tick", running |-> TRUE, applied |-> applied,
                               pending |-> pending, assigned |-> assigned,
                               moved |-> moved,
                               searched |-> best.searched, found |-> best.found]

\* the number of Ticks explored in the simulation at hand
TickBound ==
    IF session = "Scripted" THEN MaxFillTicks
    ELSE IF size = GridSize THEN MaxGridTicks ELSE MaxTicks

\* Tick, called while nextAction_ is pending and enableRolls_ is rolls
TickOf(pending, rolls) ==
    /\ steps < TickBound
    /\ steps' = steps + 1
    /\ size' = size
    /\ search' = search
    /\ LET applied == AppliedAction(Camera, pending, gameOver)
           camera == Step(Camera, rotations(applied), ~gameOver)
           moved == <<camera.position>> \o snake
           free == AvailablePositions(moved)
       IN /\ SetCamera(camera)
          /\ nextAction' = "None"
          /\ previousSnake' = snake
          /\ enableRolls' = rolls
          /\ IF gameOver
             THEN /\ deathAnimation' = FALSE
                  /\ call' = [op |-> "Tick", running |-> FALSE, applied |-> applied,
                              pending |-> pending, assigned |-> "none",
                              moved |-> snake,
                              searched |-> FALSE, found |-> FALSE]
                  /\ UNCHANGED <<snake, targetPosition, targetQueue, pendingGrowth,
                                 bestAction, gameOver, path, cameFrom>>
             ELSE IF moved[1] /= targetPosition
             THEN FinishTick(pending, rolls, applied, moved, targetPosition, targetQueue,
                             pendingGrowth, "none")
             ELSE IF targetQueue /= <<>>
             THEN FinishTick(pending, rolls, applied, moved, Head(targetQueue), Tail(targetQueue),
                             pendingGrowth + lengthIncrement, "queue")
             ELSE IF free = {}
             THEN /\ snake' = moved
                  /\ gameOver' = TRUE
                  /\ deathAnimation' = FALSE
                  /\ call' = [op |-> "Tick", running |-> TRUE, applied |-> applied,
                              pending |-> pending, assigned |-> "failed",
                              moved |-> moved,
                              searched |-> FALSE, found |-> FALSE]
                  /\ UNCHANGED <<targetPosition, targetQueue, pendingGrowth,
                                 bestAction, path, cameFrom>>
             ELSE \E position \in free :
                      FinishTick(pending, rolls, applied, moved, position, targetQueue,
                                 pendingGrowth + lengthIncrement, "sampled")
          /\ history' = Append(history,
                               [started |-> ~gameOver,
                                ate |-> call'.assigned \in {"queue", "sampled"},
                                length |-> Len(snake')])

Tick == TickOf(nextAction, enableRolls) /\ SessionUnchanged

Next ==
    \/ \E action \in UserAction : SetNextAction(action)
    \/ Tick

Spec == Init /\ [][Next]_vars

-----------------------------------------------------------------------------
(* The state machine of one GridCamera4D stepped on its own *)

InitCamera ==
    /\ size = Size
    /\ SetCameraTo(CameraReset(InitialSnake[1], <<0, 0, 1, 0>>, IDENTITY))
    /\ call = [op |-> "Reset"]
    /\ history = <<>>
    /\ steps = 0
    /\ NoSession
    /\ snake = <<>>
    /\ previousSnake = <<>>
    /\ targetPosition = ZeroVector
    /\ targetQueue = <<>>
    /\ pendingGrowth = 0
    /\ nextAction = "None"
    /\ bestAction = "None"
    /\ gameOver = FALSE
    /\ deathAnimation = FALSE
    /\ enableRolls = TRUE
    /\ path = <<>>
    /\ cameFrom = EmptyCameFrom
    /\ search = Idle

\* one Step with the rotation of an action, moving or not
StepCall ==
    /\ steps < MaxSteps
    /\ steps' = steps + 1
    /\ \E action \in UserAction, move \in BOOLEAN :
           /\ SetCamera(Step(Camera, rotations(action), move))
           /\ call' = [op |-> "Step", action |-> action, move |-> move]
    /\ UNCHANGED <<snake, previousSnake, targetPosition, targetQueue, pendingGrowth,
                   search,
                   nextAction, bestAction, gameOver, deathAnimation, enableRolls,
                   path, cameFrom, size, history>>
    /\ SessionUnchanged

NextCamera == StepCall

SpecCamera == InitCamera /\ [][NextCamera]_vars

\* C6: after Reset with the identity rotation and any sequence of Steps with the
\* rotations of the eight actions, moving or not, every column of the
\* orientation matrix has exactly one nonzero entry, and that entry is +1 or -1.
C6_ColumnsAreSignedUnits ==
    \A c \in Axes :
        \E r \in Axes :
            /\ camRotation[r][c] \in {One, -One}
            /\ \A q \in Axes : q /= r => camRotation[q][c] = 0

\* a Step without movement after which no axis of the camera is where it started
C6_Witness ==
    /\ call.op = "Step"
    /\ ~call.move
    /\ camPosition /= InitialSnake[1]
    /\ \A c \in Axes : camRotation[c][c] = 0

\* C13 as stated: a Step with the rotation of the Roll action exchanges the
\* forward and the hyper basis vector of the camera (up to sign) and leaves
\* its up and right basis vectors unchanged.
C13_RollSwapsForwardAndHyper ==
    [][(call'.op = "Step" /\ call'.action = "XRoll") =>
          /\ GetCurrentDirection(camRotation')
                 \in {GetCurrentBlue(camRotation), VecScale(-1, GetCurrentBlue(camRotation))}
          /\ GetCurrentBlue(camRotation')
                 \in {GetCurrentDirection(camRotation),
                      VecScale(-1, GetCurrentDirection(camRotation))}
          /\ GetCurrentUp(camRotation') = GetCurrentUp(camRotation)
          /\ GetCurrentRight(camRotation') = GetCurrentRight(camRotation)]_vars

\* C13 amended: a Step with the rotation of the Roll action exchanges the right
\* and the hyper basis vector: the new right vector is the old hyper vector
\* negated, the new hyper vector is the old right vector; the forward and the up
\* basis vector, and the stored direction, are unchanged.
C13_RollSwapsRightAndHyper ==
    [][(call'.op = "Step" /\ call'.action = "XRoll") =>
          /\ GetCurrentRight(camRotation') = VecScale(-1, GetCurrentBlue(camRotation))
          /\ GetCurrentBlue(camRotation') = GetCurrentRight(camRotation)
          /\ GetCurrentDirection(camRotation') = GetCurrentDirection(camRotation)
          /\ GetCurrentUp(camRotation') = GetCurrentUp(camRotation)
          /\ camDirection' = camDirection]_vars

\* a moving Step with the rotation of Roll, made by a camera that has turned
\* away from +Z and whose hyper vector lay along Z before the Step
C13_Witness ==
    /\ call.op = "Step" /\ call.action = "XRoll" /\ call.move
    /\ camDirection /= <<0, 0, 1, 0>>
    /\ GetCurrentRight(camRotation) \in {<<0, 0, 1, 0>>, <<0, 0, -1, 0>>}
    /\ camPosition = VecAdd(camPrevPosition, camDirection)

-----------------------------------------------------------------------------
(* Properties of the simulation, checked under Spec *)

\* C1: whenever a Tick returns with the simulation still running (not game
\* over), no two cells of the snake are equal.
C1_NoDuplicateCells ==
    (call.op = "Tick" /\ ~gameOver) =>
        \A i, j \in 1..Len(snake) : i /= j => snake[i] /= snake[j]

\* a running Tick that ends with the head next to a body cell other than its neck
C1_Witness ==
    /\ call.op = "Tick"
    /\ ~gameOver
    /\ \E i \in 3..Len(snake) :
           VecSub(snake[1], snake[i]) \in Directions /\ snake[i] \in Cells

\* C2: a Tick that starts running ends game over with the death animation
\* started exactly when (a new target, if needed, could be assigned) the new
\* head is outside [0, size)^4 or equals another cell of the snake after the
\* tail update; a head on the wall or on the tail always ends the game.
C2_DeathIffWallOrTail ==
    (call.op = "Tick" /\ call.running) =>
        LET head == snake[1]
            wall == \E a \in Axes : head[a] < 0 \/ head[a] >= size
            tail == \E i \in 2..Len(snake) : snake[i] = head
        IN /\ call.assigned /= "failed" =>
                 ((gameOver /\ deathAnimation) <=> (wall \/ tail))
           /\ (wall \/ tail) => gameOver

\* a Tick in which the snake dies inside the lattice, on its own tail
C2_Witness ==
    /\ call.op = "Tick"
    /\ call.running
    /\ gameOver /\ deathAnimation
    /\ snake[1] \in Cells
    /\ \E i \in 2..Len(snake) : snake[i] = snake[1]

\* C3: after Reset and after every Tick, running or game over, the head cell of
\* the snake (index 0) is the current discrete position of the camera.
C3_HeadIsCameraPosition ==
    call.op \in {"Reset", "Tick"} => snake[1] = camPosition

\* a Tick after the game is over, the snake having moved before it died
C3_Witness ==
    /\ call.op = "Tick"
    /\ ~call.running
    /\ camPosition /= InitialSnake[1]
    /\ Len(history) >= 3

\* C4: whenever a Tick assigns a new target, taken from the scripted queue or
\* sampled, that cell is none of the cells the snake occupies at that moment,
\* the new head included.
C4_NewTargetIsFree ==
    (call.op = "Tick" /\ call.assigned \in {"queue", "sampled"}) =>
        \A i \in 1..Len(call.moved) : call.moved[i] /= targetPosition

\* the length of the snake before Tick number i
LengthBefore(i) == IF i = 1 THEN Len(InitialSnake) ELSE history[i - 1].length

\* Tick i ate a target while no growth was pending
AteAlone(i) ==
    /\ history[i].ate
    /\ \A e \in 1..(i - 1) : history[e].ate => e + lengthIncrement <= i

\* C5: when the head reaches the target (growth increment k = 3, no other target
\* eaten meanwhile) the length grows by exactly one on that Tick and on each of
\* the following Ticks that start running, until it is k larger than before,
\* and then stays constant; the length never decreases.
C5_GrowthByIncrement ==
    \A i \in 1..Len(history) :
        /\ history[i].length >= LengthBefore(i)
        /\ AteAlone(i) =>
               \A j \in i..Len(history) :
                   (\A t \in (i + 1)..j : ~history[t].ate /\ history[t].started) =>
                       history[j].length =
                           LengthBefore(i) + (IF j - i + 1 < 3 THEN j - i + 1 ELSE 3)

\* the first Tick eats, three more Ticks follow without eating, the game running
C5_Witness ==
    /\ Len(history) = 4
    /\ history[1].ate
    /\ \A t \in 2..4 : ~history[t].ate /\ history[t].started
    /\ ~gameOver
    /\ Len(snake) = Len(InitialSnake) + lengthIncrement

\* Reset or a Tick has just recommended an action with rolls enabled, the mover
\* facing +Z and the target differing from the head in the W coordinate only
OnlyHyperDiffers ==
    /\ call.op \in {"Reset", "Tick"}
    /\ ~gameOver
    /\ enableRolls
    /\ camDirection = <<0, 0, 1, 0>>
    /\ targetPosition /= snake[1]
    /\ \A a \in 1..3 : targetPosition[a] = snake[1][a]

\* C12 as stated: with rolling enabled, the mover facing +Z and the target
\* differing from the mover's position only in the W coordinate, the recommended
\* action is Roll.
C12_RollWhenOnlyHyperDiffers ==
    OnlyHyperDiffers => bestAction = "XRoll"

\* C12 amended: in that situation, when a path is found whose first step is
\* along the hyper axis of the mover, the recommended action is the turn towards
\* it, Blue for a step along the hyper vector and Red for a step against it;
\* Roll is recommended only when the first step of the path is straight ahead.
C12_RedOrBlueWhenOnlyHyperDiffers ==
    (OnlyHyperDiffers /\ call.found) =>
        /\ GetNextCellOffset(path) = GetCurrentBlue(camRotation) => bestAction = "Blue"
        /\ GetNextCellOffset(path) = VecScale(-1, GetCurrentBlue(camRotation))
               => bestAction = "Red"
        /\ bestAction = "XRoll" => GetNextCellOffset(path) = camDirection

\* a Tick after which the target lies one cell from the head along W, which is
\* the hyper axis of the mover, and the path leads straight to it
C12_Witness ==
    /\ OnlyHyperDiffers /\ call.found
    /\ call.op = "Tick"
    /\ GetCurrentBlue(camRotation) = <<0, 0, 0, 1>>
    /\ path = <<VecSub(snake[1], camDirection), snake[1], targetPosition>>
    /\ bestAction \in {"Red", "Blue"}

\* C14: a Tick that applies the Roll action (XRoll) leaves the forward direction
\* and the up vector of the mover unchanged and exchanges its right and its
\* hyper axis up to sign; a running Tick moves the head one cell along the
\* direction the snake had before.
C14_RollKeepsDirection ==
    [][(call'.op = "Tick" /\ call'.applied = "XRoll") =>
          /\ camDirection' = camDirection
          /\ GetCurrentDirection(camRotation') = GetCurrentDirection(camRotation)
          /\ GetCurrentUp(camRotation') = GetCurrentUp(camRotation)
          /\ GetCurrentRight(camRotation')
                 \in {GetCurrentBlue(camRotation), VecScale(-1, GetCurrentBlue(camRotation))}
          /\ GetCurrentBlue(camRotation')
                 \in {GetCurrentRight(camRotation), VecScale(-1, GetCurrentRight(camRotation))}
          /\ call'.running =>
                 /\ camPosition' = VecAdd(camPosition, camDirection)
                 /\ call'.moved[1] = VecAdd(snake[1], camDirection)]_vars

\* a running Tick that rolled and moved the head ahead, the hyper axis of the
\* mover now lying along X
C14_Witness ==
    /\ call.op = "Tick" /\ call.running /\ call.applied = "XRoll"
    /\ ~gameOver
    /\ snake[1] = VecAdd(previousSnake[1], camDirection)
    /\ GetCurrentBlue(camRotation) \in {<<1, 0, 0, 0>>, <<-1, 0, 0, 0>>}

\* C15: a Tick whose applied action is None, Left, Right, Up or Down leaves the
\* hyper axis vector of the mover unchanged and the coordinate of the head along
\* it constant, so the new head is none of the snake cells whose coordinate
\* along the hyper axis differs from the head's.
C15_TurnsKeepHyperCoordinate ==
    [][(call'.op = "Tick" /\ call'.applied \in {"None", "Left", "Right", "Up", "Down"}) =>
          /\ GetCurrentBlue(camRotation') = GetCurrentBlue(camRotation)
          /\ DotProduct(camPosition', GetCurrentBlue(camRotation))
                 = DotProduct(camPosition, GetCurrentBlue(camRotation))
          /\ call'.running =>
                 \A i \in 1..Len(snake) :
                     DotProduct(snake[i], GetCurrentBlue(camRotation))
                         /= DotProduct(snake[1], GetCurrentBlue(camRotation))
                     => call'.moved[1] /= snake[i]]_vars

\* a running Tick that turned left, right, up or down while a cell of the snake
\* inside the lattice has another coordinate along the hyper axis than the head
C15_Witness ==
    /\ call.op = "Tick" /\ call.running
    /\ call.applied \in {"Left", "Right", "Up", "Down"}
    /\ ~gameOver
    /\ \E i \in 2..Len(snake) :
           /\ snake[i] \in Cells
           /\ DotProduct(snake[i], GetCurrentBlue(camRotation))
                  /= DotProduct(snake[1], GetCurrentBlue(camRotation))

\* C17: a Tick that starts running applies the pending action if a copy of the
\* mover stepped with it stays inside the lattice, and None otherwise; the real
\* mover is stepped once, from its own state, with the applied action; a Tick
\* that moves the head out of the lattice has applied None.
C17_RollbackOfNextAction ==
    [][(call'.op = "Tick" /\ call'.running) =>
          /\ call'.applied =
                 (IF Step(Camera, rotations(nextAction), TRUE).position \in Cells
                  THEN nextAction ELSE "None")
          /\ camPrevPosition' = camPosition
          /\ camRotation' = Snap(MatMul(camRotation, AsMatrix(rotations(call'.applied))))
          /\ camPosition' = VecAdd(camPosition, camDirection')
          /\ camPosition' \notin Cells => call'.applied = "None"]_vars

\* a running Tick that discarded a pending turn and went straight on, alive
C17_Witness ==
    /\ call.op = "Tick" /\ call.running
    /\ call.pending \in {"Left", "Right", "Up", "Down", "Red", "Blue"}
    /\ call.applied = "None"
    /\ ~gameOver
    /\ snake[1] = VecAdd(previousSnake[1], camDirection)

\* C21: once the game is over, every Tick and every SetNextAction leaves the
\* game over, and leaves the position of the mover, the cells of the snake, the
\* target, the pending growth and the best action as they were.
C21_GameOverIsFrozen ==
    [][gameOver =>
          /\ gameOver'
          /\ UNCHANGED <<camPosition, snake, targetPosition, pendingGrowth,
                         bestAction>>]_vars

\* a Tick called after the game was over, the head outside the lattice
C21_Witness ==
    /\ gameOver
    /\ call.op = "Tick" /\ ~call.running
    /\ IsOutside(snake[1])
    /\ previousSnake = snake

\* C22: after a Tick, while the blend factor times the camera rotation speed is
\* below 1, GetCurrentAnimationType is ColorRotation exactly when the Tick applied
\* Red, Blue or Roll, Rotation exactly when it applied Left, Right, Up or Down,
\* and Idle exactly when it applied None; from 1 on it is Idle.
C22_AnimationTypeOfAppliedAction ==
    call.op = "Tick" =>
        \A blendFactor \in BlendFactors, speed \in RotationSpeeds :
            GetCurrentAnimationType(camDelta, blendFactor, speed) =
                (IF FloatMul(blendFactor, speed) >= One THEN "Idle"
                 ELSE IF call.applied \in {"Red", "Blue", "XRoll"} THEN "ColorRotation"
                 ELSE IF call.applied \in {"Left", "Right", "Up", "Down"} THEN "Rotation"
                 ELSE "Idle")

\* the number of nonzero components IntVectorToAxis asserts to be 1
NumNonZero(value) == Cardinality({a \in Axes : value[a] /= 0})

\* a step of one cell along one axis
IsUnitStep(value) ==
    /\ NumNonZero(value) = 1
    /\ \A a \in Axes : value[a] \in {-1, 0, 1}

\* C28: in every Tick of a running game the displacement of the head is a step
\* of one cell along one axis, equal or perpendicular to the previous
\* displacement (head minus second cell) and never its opposite; consecutive
\* cells of the snake are lattice neighbours, and both vectors MakeDeltaRotation
\* hands to IntVectorToAxis have exactly one nonzero component.
C28_HeadStepsAreUnitTurns ==
    [][(call'.op = "Tick" /\ call'.running) =>
          LET prevDirection == VecSub(snake[1], snake[2])
              newDirection == VecSub(snake'[1], snake[1])
          IN /\ IsUnitStep(newDirection)
             /\ newDirection = prevDirection
                    \/ DotProduct(newDirection, prevDirection) = 0
             /\ newDirection /= VecScale(-1, prevDirection)
             /\ NumNonZero(prevDirection) = 1
             /\ \A i \in 1..(Len(snake') - 1) :
                    IsUnitStep(VecSub(snake'[i], snake'[i + 1]))]_vars

\* a Tick has turned the head to the hyper axis after a turn within the slice
C28_Witness ==
    /\ call.op = "Tick" /\ call.running
    /\ Len(snake) >= 4
    /\ VecSub(snake[1], snake[2])[4] /= 0
    /\ VecSub(snake[2], snake[3])[3] = 0
    /\ VecSub(snake[3], snake[4])[3] /= 0

-----------------------------------------------------------------------------
(* The state machine of one GameSession: classic, tutorial or demo *)

Sessions == {"Classic", "Tutorial", "Demo"}

\* the actions of the keys A, D, W, S, Q, E and Space, in the order in which
\* ClassicGameSession::DoUpdate tests the keys
KeyActions == <<"Left", "Right", "Up", "Down", "Red", "Blue", "XRoll">>

\* the sets of keys pressed within one frame
KeyPresses == {keys \in SUBSET (1..Len(KeyActions)) :
                  keys /= {} /\ Cardinality(keys) <= MaxKeys}

\* nextAction_ after ClassicGameSession::DoUpdate: SetNextAction is called for
\* each key pressed, the last call stands
ClassicDoUpdate(keys) ==
    IF gameOver THEN nextAction
    ELSE KeyActions[CHOOSE k \in keys : \A other \in keys : other <= k]

\* nextAction_ after TutorialGameSession::DoUpdate
TutorialDoUpdate(keys) ==
    IF bestAction /= nextAction THEN ClassicDoUpdate(keys) ELSE nextAction

\* standardTargets, and the lists tutorialTargets explored: both start with the
\* target Reset sets by default; the tutorial goes on to a cell beside it
SessionScripts(kind) ==
    IF kind = "Tutorial"
    THEN {<<DefaultTarget, c>> : c \in {d \in Cells : d[4] = DefaultTarget[4]}}
    ELSE {<<DefaultTarget>>}

\* GameSession(context) and the constructor of the session: the Resets after
\* the first find the path to the same first target stored
InitSession ==
    \E kind \in Sessions :
        /\ NewGame(Size, SessionScripts(kind))
        /\ session = kind
        /\ redRotationUsed = FALSE
        /\ blueRotationUsed = FALSE
        /\ exactGuidelines = (kind \in {"Tutorial", "Demo"})

\* GameSession::Update for a frame in which keys are pressed and the period
\* has not elapsed: DoUpdate alone
SessionUpdate ==
    /\ session \in Sessions
    /\ \E keys \in KeyPresses :
           nextAction' = (CASE session = "Classic" -> ClassicDoUpdate(keys)
                            [] session = "Tutorial" -> TutorialDoUpdate(keys)
                            [] session = "Demo" -> nextAction)
    /\ call' = [op |-> "Update"]
    /\ UNCHANGED <<camPosition, camPrevPosition, camDirection, camRotation, camDelta,
                   search,
                   snake, previousSnake, targetPosition, targetQueue, pendingGrowth,
                   bestAction, gameOver, deathAnimation, enableRolls, path, cameFrom,
                   size, history, steps>>
    /\ SessionUnchanged

\* GameSession::Update for a frame in which no key is pressed and the period
\* elapses: DoTick of the session
SessionTick ==
    /\ session \in Sessions
    /\ UNCHANGED <<session, exactGuidelines>>
    /\ redRotationUsed' =
           (redRotationUsed \/ (session = "Tutorial" /\ nextAction = "Red"))
    /\ blueRotationUsed' =
           (blueRotationUsed \/ (session = "Tutorial" /\ nextAction = "Blue"))
    /\ CASE session = "Classic" -> TickOf(nextAction, enableRolls)
         [] session = "Tutorial" ->
                TickOf(nextAction, redRotationUsed' /\ blueRotationUsed')
         [] session = "Demo" ->
                TickOf(IF ~gameOver THEN bestAction ELSE nextAction, enableRolls)

NextSession == SessionUpdate \/ SessionTick

SpecSession == InitSession /\ [][NextSession]_vars

\* C16: in a tutorial session the action a Tick consumes is None or the best
\* action recommended when the Tick is called; other keys are ignored.
C16_TutorialTakesBestActionOnly ==
    [][(session = "Tutorial" /\ call'.op = "Tick") =>
          call'.applied \in {"None", bestAction}]_vars

\* C20: with exact guidelines (tutorial, demo), after every Tick that ran and
\* left the game running, no cell of the stored path beyond the head is a cell of
\* the tail of the snake, whether the path was searched or reused.
C20_PathAvoidsTail ==
    (exactGuidelines /\ call.op = "Tick" /\ call.running /\ ~gameOver) =>
        \A i \in 3..Len(path) : path[i] \notin TailCells(snake)

\* a Tick of a session with exact guidelines that reused the stored path, two
\* steps or more still to go, the snake having grown
C20_Witness ==
    /\ exactGuidelines /\ call.op = "Tick" /\ call.running /\ ~gameOver
    /\ call.found /\ ~call.searched
    /\ Len(path) >= 4
    /\ Len(snake) > Len(InitialSnake)

\* the Tick about to be made applies the best action, and that action came from
\* a path of 3 nodes or more that was found
FollowsPath(pending) ==
    /\ ~gameOver
    /\ Len(path) >= MinElements
    /\ pending = bestAction

\* C24: when the recommendation came from a found path of at least 3 nodes and
\* the next Tick applies it (None and Roll for a straight step included), the
\* head moves by GetNextCellOffset, onto the next cell of the path; Left and
\* Right turn the forward direction to the negative and positive right axis,
\* Down and Up to the negative and positive up axis, Red and Blue to the
\* negative and positive hyper axis.
C24_BestActionLeadsToNextCell ==
    [][(call'.op = "Tick" /\ FollowsPath(call'.pending)) =>
          /\ call'.applied = bestAction
          /\ camPosition' = path[3]
          /\ VecSub(camPosition', camPosition) = GetNextCellOffset(path)
          /\ snake'[1] = path[3]
          /\ camDirection' =
                 (CASE bestAction = "Left" -> VecScale(-1, GetCurrentRight(camRotation))
                    [] bestAction = "Right" -> GetCurrentRight(camRotation)
                    [] bestAction = "Down" -> VecScale(-1, GetCurrentUp(camRotation))
                    [] bestAction = "Up" -> GetCurrentUp(camRotation)
                    [] bestAction = "Red" -> VecScale(-1, GetCurrentBlue(camRotation))
                    [] bestAction = "Blue" -> GetCurrentBlue(camRotation)
                    [] OTHER -> camDirection)]_vars

\* the demo has taken a recommended turn to the hyper axis, after a turn within
\* the slice
C24_Witness ==
    /\ session = "Demo"
    /\ call.op = "Tick" /\ call.running /\ ~gameOver
    /\ call.pending \in {"Red", "Blue"}
    /\ call.applied = call.pending
    /\ snake[1][4] /= snake[2][4]
    /\ \E i \in 2..(Len(snake) - 1), a \in 1..3 : snake[i][a] /= snake[i + 1][a]

-----------------------------------------------------------------------------
(* A simulation played until the snake fills the lattice: the targets are
   scripted along a walk through the cells, each one step from the one before,
   and the caller sets the best action or none before each Tick *)

\* the axis that changes at each step of the reflected Gray code on n axes
RECURSIVE GrayFlips(_)
GrayFlips(n) ==
    IF n = 0 THEN <<>> ELSE GrayFlips(n - 1) \o <<n>> \o GrayFlips(n - 1)

\* the cells of the walk that starts beside cell, the axes taken in the order given
RECURSIVE WalkFrom(_, _, _)
WalkFrom(cell, flips, order) ==
    IF flips = <<>> THEN <<>>
    ELSE LET axis == order[Head(flips)]
             next == [cell EXCEPT ![axis] = 1 - cell[axis]]
         IN <<next>> \o WalkFrom(next, Tail(flips), order)

\* the walks from the head of the snake Reset builds
FillWalks ==
    {WalkFrom(InitialSnake[1], GrayFlips(Cardinality(Axes)), order) :
        order \in Permutations(Axes)}

\* the lists given to Reset: such a walk, or all of it but its last cells
FillScripts ==
    {SubSeq(walk, 1, Len(walk) - left) : walk \in FillWalks, left \in 0..MaxSampled}

InitFill ==
    /\ NewGame(Size, FillScripts)
    /\ session = "Scripted"
    /\ redRotationUsed = FALSE
    /\ blueRotationUsed = FALSE
    /\ exactGuidelines = FALSE

NextFill ==
    \/ SetNextAction(bestAction)
    \/ Tick

SpecFill == InitFill /\ [][NextFill]_vars

\* C18: when the head reaches the target with the queue empty and every cell of
\* the lattice is occupied by the snake, the Tick ends with the game over, the
\* snake and the target as they were; when a cell of the lattice is free, a free
\* cell of the lattice becomes the target and the growth is requested.
C18_FullLatticeEndsGame ==
    [][(call'.op = "Tick" /\ ~gameOver /\ targetQueue = <<>>
          /\ call'.moved[1] = targetPosition) =>
          IF \A c \in Cells : IsBlockedBySnake(call'.moved, c)
          THEN /\ gameOver'
               /\ targetPosition' = targetPosition
               /\ snake' = call'.moved
          ELSE /\ targetPosition' \in Cells
               /\ ~IsBlockedBySnake(call'.moved, targetPosition')
               /\ pendingGrowth' = pendingGrowth + lengthIncrement - 1]_vars

\* the head has reached the last scripted target and the snake covers the lattice
C18_Witness ==
    /\ call.op = "Tick" /\ call.running
    /\ gameOver /\ ~deathAnimation
    /\ targetQueue = <<>>
    /\ snake[1] = targetPosition
    /\ \A c \in Cells : IsBlockedBySnake(snake, c)

\* the cells of a snake
CellsOf(cells) == {cells[i] : i \in 1..Len(cells)}

\* a Tick that applies the recommendation follows the stored path: the head
\* moves onto its next cell; while the target is further away the path is kept
\* without a search, and on the last cell the target is reached
AlongPath ==
    /\ snake'[1] = path[3]
    /\ IF Len(path) > MinElements
       THEN /\ call'.assigned = "none"
            /\ ~gameOver' => /\ ~call'.searched /\ call'.found
                             /\ path' = Tail(path)
       ELSE /\ snake'[1] = targetPosition
            /\ call'.assigned /= "none"

\* C27 as stated: when the Tick applies the recommendation and the
\* recommendation came from a path that was found, the head goes along the
\* path cell by cell, every UpdatePath before the target is answered from the
\* stored path, the target is reached when the path is used up (after as many
\* Ticks as the path has nodes, less 2), and the game is not over after any of
\* these Ticks; a Tick that applies the recommendation ends the game only when
\* the recommendation came from a failed search.
C27_DemoFollowsPathWithoutGameOver ==
    [][/\ (call'.op = "Tick" /\ FollowsPath(call'.pending)) =>
             (AlongPath /\ ~gameOver')
       /\ (call'.op = "Tick" /\ ~gameOver /\ call'.pending = bestAction /\ gameOver')
             => path = <<>>]_vars

\* C27 amended: the same for a path of 3 nodes or more, except that the Tick
\* which reaches the target ends the game, without a death, when no free cell
\* is left for the next target; a Tick that applies the recommendation kills
\* the snake only when the recommendation came from a failed search or from a
\* path of two nodes, found for a target under the head.
C27_DemoFollowsPathUntilLatticeFull ==
    [][/\ (call'.op = "Tick" /\ FollowsPath(call'.pending)) =>
             /\ AlongPath
             /\ ~deathAnimation'
             /\ gameOver' <=> (Len(path) = MinElements /\ call'.assigned = "failed")
             /\ call'.assigned = "failed" =>
                    Cells \ CellsOf(snake') = {}
       /\ (call'.op = "Tick" /\ ~gameOver /\ call'.pending = bestAction
               /\ deathAnimation')
             => \/ path = <<>>
                \/ Len(path) = MinElements - 1 /\ path[2] = targetPosition]_vars

\* a Tick has taken the head one cell along a path of 4 nodes or more with a
\* turn and has kept the rest of the path without a search
C27_Witness ==
    /\ call.op = "Tick" /\ call.running /\ ~gameOver
    /\ call.pending = call.applied /\ call.applied /= "None"
    /\ call.assigned = "none"
    /\ ~call.searched /\ call.found
    /\ Len(path) >= MinElements
    /\ path[1] = snake[2] /\ path[2] = snake[1]
    /\ path[Len(path)] = targetPosition

-----------------------------------------------------------------------------
(* A simulation on the larger lattice, with every cell as the first target *)

GridScripts == {<<c>> : c \in Cells}

InitGrid == NewGame(GridSize, GridScripts) /\ NoSession

SpecGrid == InitGrid /\ [][Next]_vars

\* Reset or a Tick has just found a path while the target lies directly behind
\* the head: on the line through the head along the direction, k >= 1 cells back
TargetBehind ==
    /\ call.op \in {"Reset", "Tick"}
    /\ ~gameOver
    /\ call.found
    /\ \E k \in 1..(size - 1) :
           targetPosition = VecSub(snake[1], VecScale(k, camDirection))

\* C11 as stated: when the target lies directly behind the mover on its heading
\* axis and a path exists, the recommended action is Left, Right, Up or Down,
\* and the first step of the path is not the cell directly behind the head.
C11_LeftRightUpDownWhenTargetBehind ==
    TargetBehind =>
        /\ bestAction \in {"Left", "Right", "Up", "Down"}
        /\ GetNextCellOffset(path) /= VecScale(-1, camDirection)

\* C11 amended: in that situation the first step of the path is not the cell
\* directly behind the head and the recommended action is not Roll; it is the
\* turn towards the first step of the path, one of Left, Right, Up, Down, Red
\* and Blue (Red or Blue exactly when that step is along the hyper axis of the
\* mover), or None when the first step of the path is straight ahead.
C11_TurnWhenTargetBehind ==
    TargetBehind =>
        /\ GetNextCellOffset(path) /= VecScale(-1, camDirection)
        /\ bestAction /= "XRoll"
        /\ GetNextCellOffset(path) /= camDirection =>
               bestAction \in {"Left", "Right", "Up", "Down", "Red", "Blue"}
        /\ GetNextCellOffset(path) = camDirection => bestAction = "None"
        /\ bestAction \in {"Red", "Blue"} <=>
               GetNextCellOffset(path) \in {GetCurrentBlue(camRotation),
                                            VecScale(-1, GetCurrentBlue(camRotation))}

\* a Tick whose search leads around the neck to the target two cells behind the
\* head, starting with a turn left, right, up or down
C11_Witness ==
    /\ TargetBehind
    /\ call.op = "Tick" /\ call.searched
    /\ targetPosition = VecSub(snake[1], VecScale(2, camDirection))
    /\ Len(path) = 6
    /\ bestAction \in {"Left", "Right", "Up", "Down"}

-----------------------------------------------------------------------------
(* A simulation on the larger lattice that follows its own recommendation,   *)
(* with rolls switched on and off in between.                                *)

SetEnableRolls(enable) ==
    /\ enableRolls' = enable
    /\ call' = [op |-> "SetEnableRolls"]
    /\ UNCHANGED <<camPosition, camPrevPosition, camDirection, camRotation, camDelta,
                   search,
                   snake, previousSnake, targetPosition, targetQueue, pendingGrowth,
                   nextAction, bestAction, gameOver, deathAnimation, path, cameFrom,
                   size, history, steps>>
    /\ SessionUnchanged

NextRolls ==
    \/ \E enable \in BOOLEAN : SetEnableRolls(enable)
    \/ SetNextAction(bestAction)
    \/ Tick

SpecRolls == InitGrid /\ [][NextRolls]_vars

\* Reset or a running Tick has just left a recommendation in bestAction_
Recommended ==
    /\ call.op \in {"Reset", "Tick"}
    /\ call.op = "Tick" => call.running
    /\ ~gameOver

\* a path is stored whose next step is straight ahead, and the target lies off
\* the head along the hyper axis but not along the right axis
StraightWithHyperOffset ==
    /\ call.found
    /\ DotProduct(GetNextCellOffset(path), GetCurrentRight(camRotation)) = 0
    /\ DotProduct(GetNextCellOffset(path), GetCurrentUp(camRotation)) = 0
    /\ DotProduct(GetNextCellOffset(path), GetCurrentBlue(camRotation)) = 0
    /\ DotProduct(VecSub(targetPosition, camPosition), GetCurrentRight(camRotation)) = 0
    /\ DotProduct(VecSub(targetPosition, camPosition), GetCurrentBlue(camRotation)) /= 0

\* C25: Roll is recommended exactly when rolling is enabled, the next step of
\* the path found is straight ahead and the target's offset from the head is
\* zero along the right axis and nonzero along the hyper axis (so never with
\* rolling disabled); and the Tick that applies a recommended Roll does not
\* recommend Roll again.
C25_RollRecommendation ==
    [][/\ Recommended' =>
             ((bestAction' = "XRoll") <=> (enableRolls' /\ StraightWithHyperOffset'))
       /\ (call'.op = "Tick" /\ ~gameOver /\ bestAction = "XRoll"
               /\ call'.applied = "XRoll")
             => bestAction' /= "XRoll"]_vars

\* a Tick has applied the Roll that was recommended and taken up, and has found
\* a path again
C25_Witness ==
    /\ Recommended
    /\ call.op = "Tick"
    /\ call.pending = "XRoll" /\ call.applied = "XRoll"
    /\ call.found
    /\ camDelta.axis1 = 0 /\ camDelta.axis2 = 3
    /\ size = GridSize

-----------------------------------------------------------------------------
(* A simulation on which Reset is called again, at any time.                 *)

\* Reset that leaves the first target in the list
ResetKeepsFirst(targets) ==
    LET head == InitialSnake[1]
        camera == CameraReset(head, <<0, 0, 1, 0>>, IDENTITY)
        target == IF targets /= <<>> THEN Head(targets) ELSE DefaultTarget
    IN \E best \in {EstimateBestAction(path, cameFrom, head, IDENTITY,
                                       InitialSnake, target, enableRolls)} :
           /\ steps < TickBound
           /\ steps' = steps + 1
           /\ camPosition' = camera.position
           /\ camPrevPosition' = camera.previous
           /\ camDirection' = camera.direction
           /\ camRotation' = camera.rotation
           /\ camDelta' = camera.delta
           /\ snake' = InitialSnake
           /\ previousSnake' = InitialSnake
           /\ targetPosition' = target
           /\ targetQueue' = targets
           /\ bestAction' = best.action
           /\ path' = best.path
           /\ cameFrom' = best.cameFrom
           /\ call' = [op |-> "Reset", targets |-> targets,
                       searched |-> best.searched, found |-> best.found]
           /\ history' = <<>>
           /\ UNCHANGED <<pendingGrowth, nextAction, gameOver, deathAnimation,
                          enableRolls, search, size>>
           /\ SessionUnchanged

\* Reset(targets) on a simulation that has been used: the members the body
\* does not assign keep their values, the path finder keeps its path. The
\* Ticks recorded start anew, and the Reset counts as one of the steps explored.
Reset(targets) ==
    LET head == InitialSnake[1]
        camera == CameraReset(head, <<0, 0, 1, 0>>, IDENTITY)
        target == IF targets /= <<>> THEN Head(targets) ELSE DefaultTarget
    IN \E best \in {EstimateBestAction(path, cameFrom, head, IDENTITY,
                                       InitialSnake, target, enableRolls)} :
           /\ steps < TickBound
           /\ steps' = steps + 1
           /\ camPosition' = camera.position
           /\ camPrevPosition' = camera.previous
           /\ camDirection' = camera.direction
           /\ camRotation' = camera.rotation
           /\ camDelta' = camera.delta
           /\ snake' = InitialSnake
           /\ previousSnake' = InitialSnake
           /\ targetPosition' = target
           /\ targetQueue' = (IF targets /= <<>> THEN Tail(targets) ELSE <<>>)
           /\ bestAction' = best.action
           /\ path' = best.path
           /\ cameFrom' = best.cameFrom
           /\ call' = [op |-> "Reset", targets |-> targets,
                       searched |-> best.searched, found |-> best.found]
           /\ history' = <<>>
           /\ UNCHANGED <<pendingGrowth, nextAction, gameOver, deathAnimation,
                          enableRolls, search, size>>
           /\ SessionUnchanged

\* the lists Reset is called with: none, and the lists of the sessions
ResetScripts == {<<>>} \cup SessionScripts("Classic") \cup SessionScripts("Tutorial")

\* the actions asked for between the Resets: a turn within the slice and a
\* turn to the hyper axis
ResetActions == {"Left", "Red"}

NextReset ==
    \/ \E action \in ResetActions : SetNextAction(action)
    \/ Tick
    \/ \E targets \in ResetScripts : Reset(targets)

\* GameSimulation(Size): the constructor calls Reset({})
InitReset == NewGame(Size, {<<>>}) /\ NoSession

SpecReset == InitReset /\ [][NextReset]_vars

C29_ResetMakesPlayable ==
    [][/\ call'.op = "Reset" =>
             /\ ~gameOver'
             /\ Len(snake') = 3
             /\ pendingGrowth' = 0
             /\ nextAction' = "None"
       /\ (call.op = "Reset" /\ call'.op = "Tick") =>
             /\ call'.running
             /\ snake'[1] = VecAdd(snake[1], <<0, 0, 1, 0>>)]_vars

-----------------------------------------------------------------------------
(* The state machine of one GridPathFinder4D called on its own *)

Neighbours(cell) == {VecAdd(cell, d) : d \in Directions} \cap Cells

\* the cells a walk over accepted cells can get to from the cells seen
RECURSIVE Flood(_, _)
Flood(seen, legal) ==
    LET next == seen \cup {n \in legal : \E c \in seen : VecSub(n, c) \in Directions}
    IN IF next = seen THEN seen ELSE Flood(next, legal)

\* some sequence of grid-adjacent accepted cells leads from start to target
Reachable(startPosition, target, legal) == target \in Flood({startPosition}, legal)

\* the queries explored: cells of the X-Z plane through the middle of the grid
PathCells == {c \in Cells : c[2] = size \div 2 /\ c[4] = size \div 2}

PathDirections == {<<-1, 0, 0, 0>>, <<1, 0, 0, 0>>, <<0, 0, -1, 0>>, <<0, 0, 1, 0>>}

\* the cells checkCell rejects: none, the cell ahead, every neighbour of the
\* target, or every neighbour of the target but the one below it along W
Blockings(startPosition, startDirection, target) ==
    {{}, {VecAdd(startPosition, startDirection)}, Neighbours(target),
     Neighbours(target) \ {VecSub(target, <<0, 0, 0, 1>>)}}

\* GridPathFinder4D(gridSize, movementCost, rotationCost), and no game around it
NewPathFinder(edge) ==
    /\ size = edge
    /\ path = <<>>
    /\ cameFrom = EmptyCameFrom
    /\ search = Idle
    /\ call = [op |-> "Construct"]
    /\ history = <<>>
    /\ steps = 0
    /\ NoSession
    /\ SetCameraTo(CameraReset(ZeroVector, ZeroVector, IDENTITY))
    /\ snake = <<>>
    /\ previousSnake = <<>>
    /\ targetPosition = ZeroVector
    /\ targetQueue = <<>>
    /\ pendingGrowth = 0
    /\ nextAction = "None"
    /\ bestAction = "None"
    /\ gameOver = FALSE
    /\ deathAnimation = FALSE
    /\ enableRolls = TRUE

InitPath == NewPathFinder(GridSize)

GameUnchangedButSearch ==
    UNCHANGED <<camPosition, camPrevPosition, camDirection, camRotation, camDelta,
                snake, previousSnake, targetPosition, targetQueue, pendingGrowth,
                nextAction, bestAction, gameOver, deathAnimation, enableRolls, size,
                session, redRotationUsed, blueRotationUsed, exactGuidelines,
                history>>

GameUnchanged ==
    UNCHANGED <<camPosition, camPrevPosition, camDirection, camRotation, camDelta,
                search,
                snake, previousSnake, targetPosition, targetQueue, pendingGrowth,
                nextAction, bestAction, gameOver, deathAnimation, enableRolls, size,
                session, redRotationUsed, blueRotationUsed, exactGuidelines,
                history>>

\* one call of UpdatePath with checkCell accepting the cells of legal
CallUpdatePath(startPosition, startDirection, target, legal, again) ==
    \E found \in {UpdatePath(path, cameFrom, startPosition, startDirection,
                             target, legal)} :
        /\ path' = found.path
        /\ cameFrom' = found.cameFrom
        /\ call' = [op |-> "UpdatePath", start |-> startPosition,
                    direction |-> startDirection, target |-> target,
                    legal |-> legal, result |-> found.result,
                    searched |-> found.searched, cost |-> found.cost,
                    again |-> again]
        /\ GameUnchanged

UpdatePathCall ==
    /\ steps < MaxCalls
    /\ steps' = steps + 1
    /\ \E startPosition \in PathCells, startDirection \in PathDirections,
          target \in PathCells :
          \E blocked \in Blockings(startPosition, startDirection, target) :
              CallUpdatePath(startPosition, startDirection, target, Cells \ blocked,
                             FALSE)

\* the caller asks again for the same start, direction and target
UpdatePathAgain ==
    /\ call.op = "UpdatePath"
    /\ steps' = steps
    /\ \E blocked \in Blockings(call.start, call.direction, call.target) :
           CallUpdatePath(call.start, call.direction, call.target, Cells \ blocked,
                          TRUE)

NextPath == UpdatePathCall \/ UpdatePathAgain

SpecPath == InitPath /\ [][NextPath]_vars

-----------------------------------------------------------------------------
(* UpdatePath followed pass by pass: one step for each pass of the while loop
   and for each pass of the loop of ReconstructPath *)

InitLoop == NewPathFinder(Size)

\* UpdatePath from its entry to the while loop, or to its return when the
\* stored path is reused
BeginUpdatePath(startPosition, startDirection, target, legal) ==
    /\ search = Idle
    /\ steps < MaxCalls
    /\ steps' = steps + 1
    /\ IF CacheHit(path, startPosition, startDirection, target) > 0
       THEN /\ path' = SubSeq(path,
                              CacheHit(path, startPosition, startDirection, target) - 1,
                              Len(path))
            /\ cameFrom' = cameFrom
            /\ search' = Idle
            /\ call' = [op |-> "UpdatePath", start |-> startPosition,
                        direction |-> startDirection, target |-> target,
                        legal |-> legal, result |-> TRUE, searched |-> FALSE,
                        cost |-> 0, again |-> FALSE, scored |-> 0]
       ELSE \E st \in {SearchStart(cameFrom, startPosition, startDirection, target)} :
            /\ path' = <<>>
            /\ cameFrom' = st.cameFrom
            /\ search' = [pc |-> "loop", open |-> st.open, gScore |-> st.gScore,
                          fScore |-> st.fScore]
            /\ call' = [op |-> "UpdatePath", start |-> startPosition,
                        direction |-> startDirection, target |-> target,
                        legal |-> legal, result |-> FALSE, searched |-> TRUE,
                        cost |-> 0, again |-> FALSE, scored |-> 0]
    /\ GameUnchangedButSearch

\* the starts of the calls followed: the cells of the Z axis through the middle
LoopStarts == {c \in PathCells : c[1] = size \div 2}

BeginCall ==
    \E startPosition \in LoopStarts, startDirection \in PathDirections,
       target \in Cells :
       \E blocked \in Blockings(startPosition, startDirection, target) :
           BeginUpdatePath(startPosition, startDirection, target, Cells \ blocked)

\* the number of cells the search has given a score
Scored(gScore) == Cardinality({i \in DOMAIN gScore : gScore[i] < M_MAX_INT})

\* one pass of "while (!openSet_.empty())", the return false after it included
LoopPass ==
    /\ search.pc = "loop"
    /\ \E next \in {SearchStep([open |-> search.open, cameFrom |-> cameFrom,
                                 gScore |-> search.gScore, fScore |-> search.fScore,
                                 done |-> FALSE, found |-> FALSE],
                                call.start, call.target, call.legal)} :
           /\ cameFrom' = next.cameFrom
           /\ search' = (IF next.done /\ next.found
                         THEN [pc |-> "walk", open |-> next.open,
                               gScore |-> next.gScore, fScore |-> next.fScore,
                               pathElement |-> call.target]
                         ELSE IF next.done THEN Idle
                         ELSE [pc |-> "loop", open |-> next.open,
                               gScore |-> next.gScore, fScore |-> next.fScore])
           /\ call' = (IF next.done /\ ~next.found
                       THEN [call EXCEPT !.scored = Scored(next.gScore)]
                       ELSE call)
    /\ UNCHANGED <<path, steps>>
    /\ GameUnchangedButSearch

\* one pass of "while (pathElement != startPosition)" of ReconstructPath, or
\* the rest of ReconstructPath and the return true
WalkStep ==
    /\ search.pc = "walk"
    /\ IF search.pathElement /= call.start
       THEN /\ path' = Append(path, search.pathElement)
            /\ search' = [search EXCEPT
                              !.pathElement = cameFrom[FlattenIndex(search.pathElement)]]
            /\ call' = call
       ELSE /\ path' = Reverse(path \o <<call.start,
                                          cameFrom[FlattenIndex(call.start)]>>)
            /\ search' = Idle
            /\ call' = [call EXCEPT !.result = TRUE,
                                    !.cost = search.gScore[FlattenIndex(call.target)],
                                    !.scored = Scored(search.gScore)]
    /\ UNCHANGED <<cameFrom, steps>>
    /\ GameUnchangedButSearch

NextLoop == BeginCall \/ LoopPass \/ WalkStep

\* the thread that called UpdatePath keeps running until the call returns
SpecLoop == InitLoop /\ [][NextLoop]_vars /\ WF_vars(LoopPass) /\ WF_vars(WalkStep)

\* C19: for every start, direction and target, and every checkCell that
\* accepts cells of the lattice only, the while loop of UpdatePath ends (the open
\* set empties or the target is popped), and the walk of ReconstructPath along
\* the parent links ends, at the start, with the path stored.
C19_UpdatePathTerminates ==
    /\ (search.pc = "loop") ~> (search.pc \in {"walk", "idle"})
    /\ (search.pc = "walk") ~>
           (search.pc = "idle" /\ call.op = "UpdatePath" /\ call.result /\ Len(path) >= 2
              /\ path[2] = call.start /\ path[Len(path)] = call.target)

\* a search that scored five cells or more has returned true, its walk three
\* steps long or longer
C19_Witness ==
    /\ search = Idle
    /\ call.op = "UpdatePath" /\ call.searched /\ call.result
    /\ call.scored >= 5
    /\ Len(path) >= 5

-----------------------------------------------------------------------------
(* Properties of the path finder, checked under SpecPath *)

\* the stored path is a walk over the grid: consecutive nodes differ by one unit
\* along one axis
IsLatticeWalk(p) == \A i \in 1..(Len(p) - 1) : VecSub(p[i + 1], p[i]) \in Directions

\* the stored path starts [start - startDirection, start] and ends at the target,
\* and every node after the start was accepted by checkCell
IsPathOfCall(p) ==
    /\ Len(p) >= 2
    /\ p[1] = VecSub(call.start, call.direction)
    /\ p[2] = call.start
    /\ p[Len(p)] = call.target
    /\ IsLatticeWalk(p)
    /\ \A i \in 3..Len(p) : p[i] \in call.legal

\* C7 as stated: whenever UpdatePath searches and returns true, the stored path
\* is [start - startDirection, start, ..., target], a walk over the grid whose
\* nodes after the start were accepted by checkCell, and no cell is repeated.
C7_PathHasNoRepeatedCell ==
    (call.op = "UpdatePath" /\ call.searched /\ call.result) =>
        /\ IsPathOfCall(path)
        /\ \A i, j \in 1..Len(path) : i /= j => path[i] /= path[j]

\* C7 amended: the same, except that only the nodes from the start on are
\* pairwise different; the pre-start cell may come back later in the path.
C7_PathFromStartHasNoRepeatedCell ==
    (call.op = "UpdatePath" /\ call.searched /\ call.result) =>
        /\ IsPathOfCall(path)
        /\ \A i, j \in 2..Len(path) : i /= j => path[i] /= path[j]

\* a search that had to go around a rejected cell
C7_Witness ==
    /\ call.op = "UpdatePath" /\ call.searched /\ call.result
    /\ Len(path) >= 5
    /\ VecAdd(call.start, call.direction) \notin call.legal
    /\ \E i \in 3..(Len(path) - 1) :
           VecSub(path[i + 1], path[i]) /= VecSub(path[i], path[i - 1])

\* C8: after a successful UpdatePath, calling it again with the same start
\* position, start direction and target returns true and leaves the stored
\* path unchanged, however often it is repeated.
C8_RepeatedCallKeepsPath ==
    [][(/\ call.op = "UpdatePath" /\ call.result
        /\ call'.op = "UpdatePath"
        /\ call'.start = call.start
        /\ call'.direction = call.direction
        /\ call'.target = call.target)
       => (call'.result /\ path' = path)]_vars

\* a repeated call, answered from the stored path although checkCell now
\* rejects a cell of it
C8_Witness ==
    /\ call.op = "UpdatePath" /\ call.again /\ call.result /\ ~call.searched
    /\ Len(path) >= 4
    /\ \E i \in 3..Len(path) : path[i] \notin call.legal

\* C30 as stated: every path UpdatePath reports as success, whether searched
\* or served from the stored path, consists after its start cell only of cells
\* the checkCell of that call accepts.
C30_SuccessfulPathIsLegalNow ==
    (call.op = "UpdatePath" /\ call.result) =>
        \A i \in 3..Len(path) : path[i] \in call.legal

\* C30 amended: a path UpdatePath has searched for consists after its start
\* cell only of cells the checkCell of that call accepts; a path served from
\* the stored path is a suffix of it that starts one cell before the start and
\* ends at the target, returned whatever the checkCell of the call accepts.
C30_SearchedPathIsLegalReusedPathIsSuffix ==
    [][(call'.op = "UpdatePath" /\ call'.result) =>
          IF call'.searched
          THEN \A i \in 3..Len(path') : path'[i] \in call'.legal
          ELSE /\ \E k \in 1..(Len(path) - 2) : path' = SubSeq(path, k, Len(path))
               /\ path'[2] = call'.start
               /\ path'[Len(path')] = call'.target]_vars

\* a repeated call under a checkCell that rejects the cell ahead is answered
\* with the stored path, which goes straight through that cell
C30_Witness ==
    /\ call.op = "UpdatePath" /\ call.result /\ ~call.searched
    /\ path[2] = call.start
    /\ path[3] = VecAdd(call.start, call.direction)
    /\ path[3] \notin call.legal
    /\ path[3] /= call.target

\* the target is d cells straight ahead of the start and the cells up to it,
\* the target included, are accepted
StraightAhead(d) ==
    /\ call.target = VecAdd(call.start, VecScale(d, call.direction))
    /\ \A j \in 1..d : VecAdd(call.start, VecScale(j, call.direction)) \in call.legal

StraightPath(d) ==
    [i \in 1..(d + 2) |-> VecAdd(call.start, VecScale(i - 2, call.direction))]

\* C10: when the target lies d >= 1 cells straight ahead of the start along the
\* start direction and the cells between are legal, UpdatePath returns the
\* straight path of d + 1 cells from start to target (plus the pre-start node)
\* with total cost d * movementCost, and GetNextCellOffset is the start direction.
C10_StraightAheadIsStraight ==
    \A d \in 1..(size - 1) :
        (call.op = "UpdatePath" /\ call.searched /\ StraightAhead(d)) =>
            /\ call.result
            /\ path = StraightPath(d)
            /\ call.cost = d * movementCost
            /\ GetNextCellOffset(path) = call.direction

-----------------------------------------------------------------------------
(* The path finder on its own and inside the simulation, side by side *)

\* the state belongs to a simulation (and not to a path finder on its own)
InGame == snake /= <<>>

NextSearch ==
    \/ InGame /\ Next
    \/ ~InGame /\ NextPath

SpecSearch == (Init \/ InitPath) /\ [][NextSearch]_vars

\* the cells EstimateBestAction's checkCell accepts
ValidHeadPositions == {c \in Cells : IsValidHeadPosition(snake, c)}

\* C9: a searching UpdatePath returns false exactly when no sequence of
\* grid-adjacent cells accepted by the predicate leads from the start to the
\* target; the stored path is then empty and GetNextCellOffset the zero vector,
\* and in the simulation the recommendation is None and the game is not over.
C9_FalseIffUnreachable ==
    /\ (call.op = "UpdatePath" /\ call.searched) =>
           /\ call.result <=> Reachable(call.start, call.target, call.legal)
           /\ ~call.result => (path = <<>> /\ GetNextCellOffset(path) = ZeroVector)
    /\ (call.op \in {"Reset", "Tick"} /\ call.searched) =>
           /\ call.found <=> Reachable(snake[1], targetPosition, ValidHeadPositions)
           /\ ~call.found =>
                  /\ path = <<>> /\ GetNextCellOffset(path) = ZeroVector
                  /\ bestAction = "None"
                  /\ ~gameOver

\* a Tick of the simulation whose search finds no way to the target
C9_Witness ==
    /\ call.op = "Tick" /\ call.searched /\ ~call.found
    /\ snake[1] \in Cells
    /\ bestAction = "None"

\* the indices i >= 1 (from 0) of the stored path at which the caller's position
\* and direction are found, as indices of the sequence
FoundInPath(stored, position, direction) ==
    {i \in 2..Len(stored) :
        stored[i] = position /\ VecSub(stored[i], stored[i - 1]) = direction}

\* what the claim C23 says of one call of UpdatePath
ReuseRule(stored, position, direction, target, searched, result, new) ==
    IF /\ Len(stored) >= 3
       /\ stored[Len(stored)] = target
       /\ FoundInPath(stored, position, direction) /= {}
    THEN /\ ~searched
         /\ result
         /\ \E i \in FoundInPath(stored, position, direction) :
                new = SubSeq(stored, i - 1, Len(stored))
         /\ new[2] = position
    ELSE searched

\* C23: if the stored path has at least 3 nodes, ends at the requested target
\* and holds the caller's position at an index i >= 1 with path[i] - path[i-1]
\* the caller's direction, UpdatePath does not search, returns true and leaves
\* the suffix of the path from path[i-1] on; in every other case it searches.
C23_ReuseOfStoredPath ==
    [][/\ call'.op = "UpdatePath" =>
              ReuseRule(path, call'.start, call'.direction, call'.target,
                        call'.searched, call'.result, path')
       /\ (call'.op = "Tick" /\ call'.running /\ ~gameOver') =>
              ReuseRule(path, camPosition', camDirection', targetPosition',
                        call'.searched, call'.found, path')]_vars

\* a Tick of the simulation answered from the stored path, the cell the head
\* has left erased from it
C23_Witness ==
    /\ call.op = "Tick" /\ call.running /\ ~gameOver
    /\ ~call.searched /\ call.found
    /\ Len(history) >= 2
    /\ path[1] = snake[2] /\ path[2] = snake[1]
    /\ path[Len(path)] = targetPosition /\ Len(path) >= 3

====
